---- MODULE Spec2Model ----
(***************************************************************************)
(* Model of the fwd event forwarder: the incremental GitHub collector      *)
(* (internal/collector), the cursor store (EventTracker), the push         *)
(* adapters (webhook handlers, Kubernetes watch handler), the fan-in       *)
(* channel and the Pub/Sub processor with its Start/Stop lifecycle.        *)
(***************************************************************************)
EXTENDS Integers, Sequences, FiniteSets, TLC

(***************************************************************************)
(* Bounds of the model.                                                    *)
(***************************************************************************)
\* capacity of eventChan (config.BufferSize, scaled down)
BufferSize == 2
\* ListOptions.PerPage of the event listing (100 in the code, scaled down)
PerPage == 2
\* largest identifier the source ever lists
MaxItems == 5
\* number of collection cycles the ticker starts after the initial one
MaxTicks == 1
\* number of inbound webhook requests
MaxRequests == 1
\* number of Kubernetes watch notifications
MaxNotifications == 1
\* PublishSettings.CountThreshold (config.BatchSize, scaled down)
BatchSize == 2
\* PublishSettings.ByteThreshold (config.BatchBytes, scaled down)
BatchBytes == 3
\* PublishSettings.DelayThreshold in timer ticks (config.BatchTimeout,
\* scaled down)
BatchTimeout == 2
\* number of events the sources send to a publisher followed on its own
MaxEvents == 5
\* number of calls made to a cursor store followed on its own
MaxCalls == 4
\* calls of PubSubProcessor.Stop a caller makes
MaxStops == 2

(***************************************************************************)
(* Values.                                                                 *)
(***************************************************************************)
\* the zero-value cursor (the empty string)
Empty == 0
\* a key that has no RepoState record in EventTracker.repos
NoRecord == -1
\* repositories returned by Repositories.ListByOrg, in listing order
Repos == <<"elixir", "other">>
RepoNames == {Repos[i] : i \in 1..Len(Repos)}
\* classes of a listed item: inside the window and convertible, older than
\* the cutoff, or inside the window with a payload that fails to convert
Kinds == {"ok", "old", "bad"}
\* goroutines that call the cursor store
Threads == {"a", "b"}
\* the nil *types.Event
NilEvent == 0
\* len(msg.Data) of a message: below the byte threshold, or reaching it
Sizes == {1, BatchBytes}

VARIABLES
    sources,        \* PubSubProcessor.sources: the registered sources, in order
    ctxDone,        \* the top-level context has been cancelled
    eventChan,      \* PubSubProcessor.eventChan: buffered events, oldest first
    chanClosed,     \* close(p.eventChan) has executed
    mainPc,         \* position of main
    srcIdx,         \* index in p.sources of the Start / Stop loop
    pubPc,          \* processEvents goroutine: "off", "run", "get" (in
                    \* result.Get), "done", "panic"
    attempted,      \* number of events handed to publishEvent (history)
    enqueued,       \* number of events accepted by eventChan (history)
    gcSent,         \* key, id and cycle of the events the collector has
                    \* enqueued (history)
    enqAtCancel,    \* value of enqueued when cancel() was called (history)
    topicStopped,   \* topic.Stop() has executed
    clientClosed,   \* client.Close() has executed
    gcPc,           \* position of the GitHubCollector goroutine
    stopChanClosed, \* close(gc.stopChan) has executed
    ticks,          \* ticker firings consumed so far
    ri,             \* index of the repository in the repo loop
    lastEventID,    \* collectEvents local: cursor read at the start of the key
    latestEventID,  \* collectEvents local: first id of the first page
    allEvents,      \* collectEvents local: concatenation of the fetched pages
    page,           \* eventOpts.Page of the next fetch
    si,             \* index of the scan loop in allEvents
    foundLastSeen,  \* collectEvents local
    emittedIdx,     \* indexes of allEvents enqueued in this key's cycle (history)
    doneKey,        \* key whose scan just ended with its cursor step, or "" (history)
    lastRet,        \* result of the last collectEvents call (history)
    srcErr,         \* some listing call has failed so far (history)
    tracker,        \* EventTracker.repos: key -> lastEventID or NoRecord
    listing,        \* the source's event listing per repository, newest first
    nextId,         \* identifier of the next item the source will list
    newestObserved, \* newest item id fetched so far per repository (history)
    srvState,       \* webhook http.Server: "off", "listening", "shutdown"
    whPc,           \* webhook handler goroutine: "idle", "select"
    requests,       \* webhook requests received so far
    whLast,         \* outcome of the last completed webhook request (history)
    whReq,          \* the last webhook request followed through the checks
                    \* of its handler (history)
    informer,       \* Kubernetes informer: "off", "running", "stopped"
    notifications,  \* watch notifications delivered so far
    kubeLast,       \* outcome of the last handleEvent call (history)
    sendOnClosed,   \* some producer executed a send on the closed channel
    bundle,         \* messages the topic's bundler holds, oldest first
    age,            \* timer ticks since the first message of bundle was added
    waitFor,        \* id of the message whose result.Get is pending, or NilEvent
    flushes,        \* the bundles sent so far, in order (history)
    delivered,      \* ids whose publishEvent returned nil (history)
    failed,         \* ids whose publishEvent returned an error (history)
    nils,           \* number of nil events dequeued so far (history)
    attemptLog,     \* ids handed to publishEvent by the bundling publisher,
                    \* in call order (history)
    lastMsg,        \* event and Attributes of the pubsub.Message built last
    visited,        \* keys whose cursor the running cycle has read (history)
    fetchErr,       \* keys a page fetch has failed for in the running cycle (history)
    th,             \* callers of the cursor store: the call each one is in
    etRepos,        \* EventTracker.repos: key -> record, 0 for no entry
    heap,           \* the RepoState records allocated: lastEventID of each
    ncalls,         \* calls of the cursor store invoked so far
    sets,           \* per key, the tokens of the returned UpdateLastEventID calls (history)
    replaced,       \* tokens of updates that had returned when a later update
                    \* of the same key was invoked (history)
    ref,            \* per key, the token of the update that returned last (history)
    got,            \* keys some returned GetLastEventID call has read (history)
    lastGet,        \* token the last GetLastEventID returned, and ref of its
                    \* key at that time (history)
    overlapped,     \* some call was invoked while another was in progress (history)
    started,        \* the sources whose Start has returned nil, in order (history)
    closes,         \* executions of close(gc.stopChan) and of
                    \* close(p.eventChan) so far (history)
    stops           \* calls of PubSubProcessor.Stop so far

vars == <<sources, ctxDone, enqAtCancel, eventChan, chanClosed, mainPc, srcIdx, pubPc, attempted,
          enqueued, gcSent, topicStopped, clientClosed, gcPc, stopChanClosed, ticks,
          ri, lastEventID, latestEventID, allEvents, page, si, foundLastSeen,
          emittedIdx, doneKey, lastRet, srcErr, tracker, listing, nextId, newestObserved,
          srvState, whPc, requests, whLast, whReq, informer, notifications, kubeLast,
          sendOnClosed, bundle, age, waitFor, flushes, delivered, failed,
          nils, attemptLog, lastMsg, visited, fetchErr, th, etRepos, heap, ncalls, sets, replaced,
          ref, got, lastGet, overlapped, started, closes, stops>>

lifeVars == <<started, closes, stops>>
mainVars == <<sources, enqAtCancel, mainPc, srcIdx, topicStopped, clientClosed,
              lifeVars>>
batchVars == <<bundle, age, waitFor, flushes, delivered, failed, nils,
               attemptLog, lastMsg>>
pubVars == <<pubPc, attempted, batchVars>>
cycleVars == <<ri, lastEventID, latestEventID, allEvents, page, si,
               foundLastSeen, emittedIdx, doneKey, lastRet, srcErr, visited,
               fetchErr>>
storeVars == <<th, etRepos, heap, ncalls, sets, replaced, ref, got, lastGet,
               overlapped>>
gcVars == <<gcPc, stopChanClosed, ticks, cycleVars, tracker, newestObserved,
            storeVars>>
srcVars == <<listing, nextId>>
whVars == <<srvState, whPc, requests, whLast, whReq>>
kubeVars == <<informer, notifications, kubeLast>>
chanVars == <<eventChan, chanClosed, enqueued, sendOnClosed, gcSent>>

\* the process is running: main has not returned and no goroutine has
\* panicked
Alive ==
    /\ mainPc \notin {"exit", "panic"}
    /\ gcPc # "panic" /\ informer # "panic" /\ pubPc # "panic"

(***************************************************************************)
(* Cursor store (EventTracker).                                            *)
(***************************************************************************)
\* the token GetLastEventID returns: the record's lastEventID, the zero
\* value for a record created by this call
GetLastEventID(t, repo) == IF t[repo] = NoRecord THEN Empty ELSE t[repo]

\* a read that leaves a token of its own in the record of the key
TrackerAfterGet_StoresToken(t, repo) == [t EXCEPT ![repo] = 1]

\* EventTracker.repos after GetLastEventID: an unseen key gets a record
TrackerAfterGet(t, repo) ==
    IF t[repo] = NoRecord THEN [t EXCEPT ![repo] = Empty] ELSE t

\* an update that keeps the smaller of the stored and the new token
UpdateLastEventID_KeepOlder(t, repo, id) ==
    [t EXCEPT ![repo] = IF @ # NoRecord /\ @ # Empty /\ @ < id THEN @ ELSE id]

\* EventTracker.repos after UpdateLastEventID(repo, id)
UpdateLastEventID(t, repo, id) == [t EXCEPT ![repo] = id]

(***************************************************************************)
(* The cursor store step by step: EventTracker and RepoState under calls   *)
(* from several goroutines.  Each critical section (one hold of et.mu or   *)
(* of a record's mu) is one step.                                          *)
(***************************************************************************)
\* a caller that is in no call
Idle == [pc |-> "idle", op |-> "none", repo |-> "", id |-> Empty, state |-> 0]

\* no call is in progress
Quiescent == \A t \in Threads : th[t].pc = "idle"

\* a RepoState.Update that writes every record
RecordUpdate_All(h, p, id) == [q \in DOMAIN h |-> id]

\* RepoState.Update(id) on record p
RecordUpdate(h, p, id) == [h EXCEPT ![p] = id]

\* what GetLastEventID(repo) returns when no other call is in progress
CurrentToken(repo) ==
    IF etRepos[repo] = 0 THEN Empty ELSE heap[etRepos[repo]]

\* the call op(repo, id) starts with its lookup under et.mu.RLock:
\* state, exists := et.repos[repo]
Lookup(t, op, repo, id) ==
    /\ th[t].pc = "idle"
    /\ ncalls < MaxCalls
    /\ ncalls' = ncalls + 1
    /\ th' = [th EXCEPT ![t] =
                 [pc |-> IF etRepos[repo] = 0 THEN "create" ELSE "access",
                  op |-> op, repo |-> repo, id |-> id,
                  state |-> etRepos[repo]]]
    /\ overlapped' = (overlapped \/ \E u \in Threads : th[u].pc # "idle")
    /\ UNCHANGED <<etRepos, heap, sets, ref, got, lastGet>>

\* if !exists, under et.mu.Lock: a new RepoState is stored for repo,
\* whatever the map holds by now, and becomes the call's state
Create(t) ==
    /\ th[t].pc = "create"
    /\ heap' = Append(heap, Empty)
    /\ etRepos' = [etRepos EXCEPT ![th[t].repo] = Len(heap) + 1]
    /\ th' = [th EXCEPT ![t].pc = "access", ![t].state = Len(heap) + 1]
    /\ UNCHANGED <<ncalls, sets, replaced, ref, got, lastGet, overlapped>>

\* GetLastEventID, lines 48-50
GetLookup ==
    /\ \E t \in Threads : \E repo \in RepoNames :
          Lookup(t, "get", repo, Empty)
    /\ UNCHANGED replaced
    /\ UNCHANGED <<mainVars, pubVars, srcVars, whVars, kubeVars, chanVars,
                   ctxDone, gcPc, stopChanClosed, ticks, cycleVars, tracker,
                   newestObserved>>

\* GetLastEventID, lines 52-57
GetCreate ==
    /\ \E t \in Threads : th[t].op = "get" /\ Create(t)
    /\ UNCHANGED <<mainVars, pubVars, srcVars, whVars, kubeVars, chanVars,
                   ctxDone, gcPc, stopChanClosed, ticks, cycleVars, tracker,
                   newestObserved>>

\* GetLastEventID, line 58: return state.Get()
GetReturn ==
    /\ \E t \in Threads :
          /\ th[t].op = "get"
          /\ th[t].pc = "access"
          /\ lastGet' = [ret |-> heap[th[t].state], want |-> ref[th[t].repo]]
          /\ got' = got \cup {th[t].repo}
          /\ th' = [th EXCEPT ![t] = Idle]
    /\ UNCHANGED <<etRepos, heap, ncalls, sets, replaced, ref, overlapped>>
    /\ UNCHANGED <<mainVars, pubVars, srcVars, whVars, kubeVars, chanVars,
                   ctxDone, gcPc, stopChanClosed, ticks, cycleVars, tracker,
                   newestObserved>>

\* UpdateLastEventID, lines 62-64; the token of the call is a fresh one
UpdateLookup ==
    /\ \E t \in Threads : \E repo \in RepoNames :
          /\ Lookup(t, "update", repo, ncalls + 1)
          /\ replaced' = replaced \cup sets[repo]
    /\ UNCHANGED <<mainVars, pubVars, srcVars, whVars, kubeVars, chanVars,
                   ctxDone, gcPc, stopChanClosed, ticks, cycleVars, tracker,
                   newestObserved>>

\* UpdateLastEventID, lines 66-71
UpdateCreate ==
    /\ \E t \in Threads : th[t].op = "update" /\ Create(t)
    /\ UNCHANGED <<mainVars, pubVars, srcVars, whVars, kubeVars, chanVars,
                   ctxDone, gcPc, stopChanClosed, ticks, cycleVars, tracker,
                   newestObserved>>

\* UpdateLastEventID, line 72: state.Update(id), and the call returns
UpdateWrite ==
    /\ \E t \in Threads :
          /\ th[t].op = "update"
          /\ th[t].pc = "access"
          /\ heap' = RecordUpdate(heap, th[t].state, th[t].id)
          /\ sets' = [sets EXCEPT ![th[t].repo] = @ \cup {th[t].id}]
          /\ ref' = [ref EXCEPT ![th[t].repo] = th[t].id]
          /\ th' = [th EXCEPT ![t] = Idle]
    /\ UNCHANGED <<etRepos, ncalls, replaced, got, lastGet, overlapped>>
    /\ UNCHANGED <<mainVars, pubVars, srcVars, whVars, kubeVars, chanVars,
                   ctxDone, gcPc, stopChanClosed, ticks, cycleVars, tracker,
                   newestObserved>>

(***************************************************************************)
(* The buffered channel (eventChan).                                       *)
(***************************************************************************)
\* a send that puts the event in front of the buffered ones
Enqueue_InFront(q, event) == <<event>> \o q

\* a send on the buffered channel with room: the event goes behind the
\* buffered ones, the receive takes the oldest
Enqueue(q, event) == Append(q, event)

(***************************************************************************)
(* The paginated listing client (Activity.ListRepositoryEvents).           *)
(***************************************************************************)
Min(a, b) == IF a < b THEN a ELSE b
Max(a, b) == IF a > b THEN a ELSE b

\* the items of page p of listing L
PageOf(L, p) == SubSeq(L, (p - 1) * PerPage + 1, Min(p * PerPage, Len(L)))

\* eventResp.NextPage after fetching page p of L: 0 on the last page
NextPage(L, p) == IF p * PerPage < Len(L) THEN p + 1 ELSE 0

\* the source lists a new item, newest first.  The listing is read by the
\* page fetches only, so an arrival is taken where the collector is about to
\* fetch a page of that repository: before the first page or between two
\* pages (which shifts the items already fetched onto later pages)
Arrive ==
    /\ nextId <= MaxItems
    /\ gcPc = "fetch"
    /\ \E kind \in Kinds :
          listing' = [listing EXCEPT
                         ![Repos[ri]] = <<[id |-> nextId, kind |-> kind]>> \o @]
    /\ nextId' = nextId + 1
    /\ UNCHANGED <<mainVars, pubVars, gcVars, whVars, kubeVars, chanVars,
                   ctxDone>>

\* the source stops listing an item (it was removed, or it has left the
\* window the source keeps); taken between two cycles
Remove ==
    /\ gcPc = "idle"
    /\ \E r \in RepoNames : \E i \in 1..Len(listing[r]) :
          listing' = [listing EXCEPT
                         ![r] = SubSeq(@, 1, i - 1) \o SubSeq(@, i + 1, Len(@))]
    /\ UNCHANGED <<nextId, mainVars, pubVars, gcVars, whVars, kubeVars,
                   chanVars, ctxDone>>

(***************************************************************************)
(* GitHubCollector.collectEvents and the goroutine of Start.               *)
(***************************************************************************)
\* collectEvents returns: the goroutine goes back to its select loop and
\* the locals of the call are gone
Return(ret) ==
    /\ gcPc' = "idle"
    /\ lastRet' = ret
    /\ ri' = 1
    /\ lastEventID' = Empty
    /\ latestEventID' = Empty
    /\ allEvents' = <<>>
    /\ page' = 1
    /\ si' = 1
    /\ foundLastSeen' = FALSE
    /\ emittedIdx' = {}
    /\ doneKey' = ""
    /\ visited' = {}
    /\ fetchErr' = {}

\* limiter.Wait and Repositories.ListByOrg at the head of collectEvents
GcListRepos ==
    /\ Alive
    /\ gcPc = "list"
    /\ IF ctxDone
          THEN /\ Return("err")
               /\ UNCHANGED srcErr
          ELSE \E ok \in BOOLEAN :
                 IF ok
                    THEN /\ gcPc' = "repo"
                         /\ ri' = 1
                         /\ UNCHANGED <<lastRet, srcErr, lastEventID,
                                        latestEventID, allEvents, page, si,
                                        foundLastSeen, emittedIdx, doneKey,
                                        visited, fetchErr>>
                    ELSE /\ Return("err")
                         /\ srcErr' = TRUE
    /\ UNCHANGED <<stopChanClosed, ticks, storeVars,
                   tracker, newestObserved, mainVars, pubVars, srcVars,
                   whVars, kubeVars, chanVars, ctxDone>>

\* the name filter of the repo loop
Skipped(repoName) == repoName # "elixir"

\* head of the repo loop: limiter.Wait, the name filter, GetLastEventID
GcRepo ==
    /\ Alive
    /\ gcPc = "repo"
    /\ IF ri > Len(Repos)
          THEN /\ Return("nil")
               /\ UNCHANGED tracker
          ELSE IF ctxDone
          THEN /\ Return("err")
               /\ UNCHANGED tracker
          ELSE IF Skipped(Repos[ri])
          THEN /\ ri' = ri + 1
               /\ doneKey' = ""
               /\ UNCHANGED <<gcPc, lastRet, lastEventID, latestEventID,
                              allEvents, page, tracker, si, foundLastSeen,
                              emittedIdx, visited, fetchErr>>
          ELSE /\ lastEventID' = GetLastEventID(tracker, Repos[ri])
               /\ tracker' = TrackerAfterGet(tracker, Repos[ri])
               /\ visited' = visited \cup {Repos[ri]}
               /\ UNCHANGED fetchErr
               /\ page' = 1
               /\ allEvents' = <<>>
               /\ latestEventID' = Empty
               /\ emittedIdx' = {}
               /\ doneKey' = ""
               /\ gcPc' = "fetch"
               /\ UNCHANGED <<ri, lastRet, si, foundLastSeen>>
    /\ UNCHANGED <<srcErr, stopChanClosed, storeVars,
                   ticks, newestObserved, mainVars, pubVars, srcVars, whVars,
                   kubeVars, chanVars, ctxDone>>

\* a latestEventID that follows the page fetched last
LatestOf_LastPage(latest, events) == events[1].id

\* "store the latest event ID from the first page": latestEventID after a
\* non-empty page
LatestOf(latest, events) == IF latest = Empty THEN events[1].id ELSE latest

\* a scan that never recognises the stored cursor
IsLastSeen_Never(currentID, last) == FALSE

\* the scan's test for the item the stored cursor names
IsLastSeen(currentID, last) == currentID = last

\* a scan without the cutoff test
BeforeCutoff_Never(ghEvent) == FALSE

\* eventTime.Before(cutoff), cutoff being the start of the cycle minus 24h
BeforeCutoff(ghEvent) == ghEvent.kind = "old"

\* convertGitHubEvent returns an error for the item
ConvertFails(ghEvent) == ghEvent.kind = "bad"

\* the pagination loop is left with the pages in all: an empty result
\* moves to the next repository, otherwise the scan starts
AfterPages(all) ==
    IF Len(all) = 0
       THEN /\ ri' = ri + 1
            /\ gcPc' = "repo"
            /\ UNCHANGED <<si, foundLastSeen, emittedIdx>>
       ELSE /\ si' = 1
            /\ foundLastSeen' = FALSE
            /\ emittedIdx' = {}
            /\ gcPc' = "scan"
            /\ UNCHANGED ri

\* newest identifier among the items of a page and the ones seen before
Newest(old, events) ==
    IF Len(events) = 0 THEN old
    ELSE Max(old, CHOOSE m \in {events[i].id : i \in 1..Len(events)} :
                     \A j \in 1..Len(events) : events[j].id <= m)

\* one turn of the event pagination loop: limiter.Wait, then
\* Activity.ListRepositoryEvents for eventOpts.Page
GcFetch ==
    /\ Alive
    /\ gcPc = "fetch"
    /\ IF ctxDone
          THEN /\ Return("err")
               /\ UNCHANGED <<srcErr, newestObserved>>
          ELSE \E ok \in BOOLEAN :
                 LET events == PageOf(listing[Repos[ri]], page)
                     next == NextPage(listing[Repos[ri]], page)
                 IN  IF ~ok
                        THEN /\ srcErr' = TRUE
                             /\ fetchErr' = fetchErr \cup {Repos[ri]}
                             /\ AfterPages(allEvents)
                             /\ UNCHANGED <<latestEventID, allEvents, page,
                                            lastRet, newestObserved,
                                            lastEventID, doneKey, visited>>
                     ELSE IF Len(events) = 0
                        THEN /\ AfterPages(allEvents)
                             /\ UNCHANGED <<latestEventID, allEvents, page,
                                            lastRet, srcErr, newestObserved,
                                            lastEventID, doneKey, visited,
                                            fetchErr>>
                     ELSE /\ latestEventID' = LatestOf(latestEventID, events)
                          /\ allEvents' = allEvents \o events
                          /\ newestObserved' =
                                [newestObserved EXCEPT
                                    ![Repos[ri]] = Newest(@, events)]
                          /\ IF next = 0
                                THEN /\ AfterPages(allEvents \o events)
                                     /\ UNCHANGED page
                                ELSE /\ page' = next
                                     /\ UNCHANGED <<gcPc, ri, si,
                                                    foundLastSeen, emittedIdx>>
                          /\ UNCHANGED <<lastRet, srcErr, lastEventID, doneKey,
                                         visited, fetchErr>>
    /\ UNCHANGED <<stopChanClosed, ticks, tracker, storeVars,
                   mainVars, pubVars, srcVars, whVars, kubeVars, chanVars,
                   ctxDone>>

\* the scan of a key is over: "always update to the newest event ID",
\* then the next repository
FinishKey ==
    /\ tracker' = IF latestEventID # Empty
                     THEN UpdateLastEventID(tracker, Repos[ri], latestEventID)
                     ELSE tracker
    /\ doneKey' = Repos[ri]
    /\ ri' = ri + 1
    /\ gcPc' = "repo"
    /\ UNCHANGED <<si, foundLastSeen>>

\* a scan loop that leaves the key at the first item that fails to convert
GcScan_StopAtConvertError ==
    /\ Alive
    /\ gcPc = "scan"
    /\ IF si > Len(allEvents)
          THEN FinishKey
          ELSE LET ghEvent == allEvents[si]
               IN  IF IsLastSeen(ghEvent.id, lastEventID)
                      THEN /\ foundLastSeen' = TRUE
                           /\ si' = si + 1
                           /\ UNCHANGED <<gcPc, ri, tracker, doneKey>>
                   ELSE IF foundLastSeen
                      THEN /\ si' = si + 1
                           /\ UNCHANGED <<gcPc, ri, tracker, doneKey,
                                          foundLastSeen>>
                   ELSE IF BeforeCutoff(ghEvent)
                      THEN FinishKey
                   ELSE IF ConvertFails(ghEvent)
                      THEN FinishKey
                   ELSE /\ gcPc' = "send"
                        /\ UNCHANGED <<si, ri, tracker, doneKey,
                                       foundLastSeen>>
    /\ UNCHANGED <<lastEventID, latestEventID, allEvents, page, emittedIdx,
                   lastRet, srcErr, visited, fetchErr, storeVars,
                   stopChanClosed, ticks, newestObserved,
                   mainVars, pubVars, srcVars, whVars, kubeVars, chanVars,
                   ctxDone>>

\* one turn of the scan loop over allEvents, up to the enqueue select
GcScan ==
    /\ Alive
    /\ gcPc = "scan"
    /\ IF si > Len(allEvents)
          THEN FinishKey
          ELSE LET ghEvent == allEvents[si]
               IN  IF IsLastSeen(ghEvent.id, lastEventID)
                      THEN /\ foundLastSeen' = TRUE
                           /\ si' = si + 1
                           /\ UNCHANGED <<gcPc, ri, tracker, doneKey>>
                   ELSE IF foundLastSeen
                      THEN /\ si' = si + 1
                           /\ UNCHANGED <<gcPc, ri, tracker, doneKey,
                                          foundLastSeen>>
                   ELSE IF BeforeCutoff(ghEvent)
                      THEN FinishKey
                   ELSE IF ConvertFails(ghEvent)
                      THEN /\ si' = si + 1
                           /\ UNCHANGED <<gcPc, ri, tracker, doneKey,
                                          foundLastSeen>>
                   ELSE /\ gcPc' = "send"
                        /\ UNCHANGED <<si, ri, tracker, doneKey,
                                       foundLastSeen>>
    /\ UNCHANGED <<lastEventID, latestEventID, allEvents, page, emittedIdx,
                   lastRet, srcErr, visited, fetchErr, storeVars,
                   stopChanClosed, ticks, newestObserved,
                   mainVars, pubVars, srcVars, whVars, kubeVars, chanVars,
                   ctxDone>>

\* the enqueue select, case eventChan <- event
GcSend ==
    /\ Alive
    /\ gcPc = "send"
    /\ IF chanClosed
          THEN /\ sendOnClosed' = TRUE
               /\ gcPc' = "panic"
               /\ UNCHANGED <<eventChan, enqueued, gcSent, si, emittedIdx>>
          ELSE /\ Len(eventChan) < BufferSize
               /\ eventChan' = Enqueue(eventChan, allEvents[si].id)
               /\ enqueued' = enqueued + 1
               /\ gcSent' = gcSent \cup {<<Repos[ri], allEvents[si].id, ticks>>}
               /\ emittedIdx' = emittedIdx \cup {si}
               /\ si' = si + 1
               /\ gcPc' = "scan"
               /\ UNCHANGED sendOnClosed
    /\ UNCHANGED <<ri, lastEventID, latestEventID, allEvents, page,
                   foundLastSeen, doneKey, lastRet, srcErr, visited, fetchErr,
                   storeVars, stopChanClosed,
                   ticks, tracker, newestObserved, chanClosed, mainVars,
                   pubVars, srcVars, whVars, kubeVars, ctxDone>>

\* an enqueue select whose ctx.Done() case stores the cursor before it
\* returns
GcSendCancelled_StoresCursor ==
    /\ Alive
    /\ gcPc = "send"
    /\ ctxDone
    /\ Return("err")
    /\ tracker' = IF latestEventID # Empty
                     THEN UpdateLastEventID(tracker, Repos[ri], latestEventID)
                     ELSE tracker
    /\ UNCHANGED <<srcErr, storeVars, stopChanClosed,
                   ticks, newestObserved, mainVars, pubVars, srcVars,
                   whVars, kubeVars, chanVars, ctxDone>>

\* an enqueue select without the ctx.Done() case
GcSendCancelled_Never ==
    /\ FALSE
    /\ UNCHANGED vars

\* the enqueue select, case <-ctx.Done(): return ctx.Err()
GcSendCancelled ==
    /\ Alive
    /\ gcPc = "send"
    /\ ctxDone
    /\ Return("err")
    /\ UNCHANGED <<srcErr, storeVars, stopChanClosed,
                   ticks, tracker, newestObserved, mainVars, pubVars, srcVars,
                   whVars, kubeVars, chanVars, ctxDone>>

\* a loop that takes a tick only after a cycle that returned nil
GcTick_OnlyAfterSuccess ==
    /\ Alive
    /\ gcPc = "idle"
    /\ lastRet # "err"
    /\ ticks < MaxTicks
    /\ ticks' = ticks + 1
    /\ gcPc' = "list"
    /\ UNCHANGED <<cycleVars, stopChanClosed, tracker, newestObserved, storeVars,
                   mainVars, pubVars, srcVars, whVars, kubeVars, chanVars,
                   ctxDone>>

\* the select loop of the goroutine, case <-ticker.C
GcTick ==
    /\ Alive
    /\ gcPc = "idle"
    /\ ticks < MaxTicks
    /\ ticks' = ticks + 1
    /\ gcPc' = "list"
    /\ UNCHANGED <<cycleVars, stopChanClosed, tracker, newestObserved, storeVars,
                   mainVars, pubVars, srcVars, whVars, kubeVars, chanVars,
                   ctxDone>>

\* a select loop without the ctx.Done() case
GcExit_StopOnly ==
    /\ Alive
    /\ gcPc = "idle"
    /\ stopChanClosed
    /\ gcPc' = "done"
    /\ UNCHANGED <<cycleVars, stopChanClosed, ticks, tracker, newestObserved,
                   storeVars,
                   mainVars, pubVars, srcVars, whVars, kubeVars, chanVars,
                   ctxDone>>

\* the select loop of the goroutine, cases <-gc.stopChan and <-ctx.Done()
GcExit ==
    /\ Alive
    /\ gcPc = "idle"
    /\ stopChanClosed \/ ctxDone
    /\ gcPc' = "done"
    /\ UNCHANGED <<cycleVars, stopChanClosed, ticks, tracker, newestObserved,
                   storeVars,
                   mainVars, pubVars, srcVars, whVars, kubeVars, chanVars,
                   ctxDone>>

(***************************************************************************)
(* PubSubProcessor.processEvents and publishEvent.                         *)
(***************************************************************************)
\* case event, ok := <-p.eventChan with ok: publishEvent is called once
\* for the event; its error is logged and the loop continues.  The call is
\* taken as one step here; PubPublish, PubDelay and PubGet follow it through
\* the bundler of the topic
PubReceive ==
    /\ Alive
    /\ pubPc = "run"
    /\ Len(eventChan) > 0
    /\ eventChan' = Tail(eventChan)
    /\ attempted' = attempted + 1
    /\ UNCHANGED <<pubPc, batchVars, chanClosed, enqueued, sendOnClosed, gcSent, mainVars,
                   gcVars, srcVars, whVars, kubeVars, ctxDone>>

\* case event, ok := <-p.eventChan with !ok: the channel is closed and empty
PubChanClosed ==
    /\ Alive
    /\ pubPc = "run"
    /\ chanClosed
    /\ Len(eventChan) = 0
    /\ pubPc' = "done"
    /\ UNCHANGED <<attempted, batchVars, mainVars, gcVars, srcVars, whVars, kubeVars,
                   chanVars, ctxDone>>

\* case <-ctx.Done(): return
PubCtxDone ==
    /\ Alive
    /\ pubPc = "run"
    /\ ctxDone
    /\ pubPc' = "done"
    /\ UNCHANGED <<attempted, batchVars, mainVars, gcVars, srcVars, whVars, kubeVars,
                   chanVars, ctxDone>>

\* Event.Type and Event.Extensions of the published events: the map the
\* collector's converter fills, and the nil map, as sets of key-value pairs
Types == {"github.PushEvent", "github.IssuesEvent"}
ExtensionMaps ==
    { {},
      {<<"org", "acme">>, <<"repo", "elixir">>, <<"actor", "octocat">>,
       <<"raw_type", "PushEvent">>} }

\* msg.Attributes as publishEvent builds it from the event
Attributes(event) ==
    [type |-> event.type, source |-> event.source, id |-> event.id]

\* no message has been built yet
NoMessage ==
    LET none == [id |-> NilEvent, type |-> "", source |-> "",
                 extensions |-> {}]
    IN  [event |-> none, attributes |-> Attributes(none)]

\* total len(msg.Data) of the messages of a bundle
RECURSIVE BundleBytes(_)
BundleBytes(b) == IF Len(b) = 0 THEN 0 ELSE Head(b).size + BundleBytes(Tail(b))

\* the ids of the messages of a bundle, in order
MessageIds(b) == [i \in 1..Len(b) |-> b[i].id]

\* a bundler that sends a bundle only when all three thresholds are reached
ThresholdReached_All(n, bytes, t) ==
    n >= BatchSize /\ bytes >= BatchBytes /\ t >= BatchTimeout

\* topic.PublishSettings: a bundle of n messages and bytes bytes whose first
\* message was added t ticks ago is due when it reaches CountThreshold,
\* ByteThreshold or DelayThreshold
ThresholdReached(n, bytes, t) ==
    n >= BatchSize \/ bytes >= BatchBytes \/ t >= BatchTimeout

\* the bundler holds b, t ticks after b's first message: a due bundle is
\* sent at once
Settle(b, t) ==
    IF ThresholdReached(Len(b), BundleBytes(b), t)
       THEN /\ flushes' = Append(flushes, [ids |-> MessageIds(b),
                                           bytes |-> BundleBytes(b),
                                           age |-> t])
            /\ bundle' = <<>>
            /\ age' = 0
       ELSE /\ bundle' = b
            /\ age' = t
            /\ UNCHANGED flushes

\* case event, ok := <-p.eventChan with ok, and publishEvent up to
\* topic.Publish: json.Marshal, the message with its attributes (event.Type
\* of a nil event is a nil dereference), then the message joins the bundle
PubPublish ==
    /\ Alive
    /\ pubPc = "run"
    /\ Len(eventChan) > 0
    /\ eventChan' = Tail(eventChan)
    /\ attempted' = attempted + 1
    /\ attemptLog' = Append(attemptLog, Head(eventChan))
    /\ LET event == Head(eventChan)
       IN  IF event = NilEvent
              THEN /\ nils' = nils + 1
                   /\ pubPc' = "panic"
                   /\ UNCHANGED <<bundle, age, waitFor, flushes, failed,
                                  lastMsg>>
              ELSE \E marshalled \in BOOLEAN : \E size \in Sizes :
                     IF ~marshalled
                        THEN /\ failed' = failed \cup {event}
                             /\ UNCHANGED <<pubPc, bundle, age, waitFor,
                                            flushes, nils, lastMsg>>
                        ELSE /\ \E type \in Types : \E ext \in ExtensionMaps :
                                  LET e == [id |-> event, type |-> type,
                                            source |-> "//github.com/acme/elixir",
                                            extensions |-> ext]
                                  IN  lastMsg' = [event |-> e,
                                                  attributes |-> Attributes(e)]
                             /\ Settle(Append(bundle,
                                              [id |-> event, size |-> size]),
                                       IF Len(bundle) = 0 THEN 0 ELSE age)
                             /\ waitFor' = event
                             /\ pubPc' = "get"
                             /\ UNCHANGED <<failed, nils>>
    /\ UNCHANGED <<delivered, chanClosed, enqueued, sendOnClosed, gcSent, mainVars,
                   gcVars, srcVars, whVars, kubeVars, ctxDone>>

\* the bundler's timer: one more tick since the first message of the bundle
PubDelay ==
    /\ Alive
    /\ Len(bundle) > 0
    /\ age < BatchTimeout
    /\ Settle(bundle, age + 1)
    /\ UNCHANGED <<pubPc, attempted, waitFor, delivered, failed, nils,
                   attemptLog, lastMsg, mainVars, gcVars, srcVars, whVars, kubeVars, chanVars,
                   ctxDone>>

\* a loop that ends on a publish error
PcAfterGet_StopOnError(ok) == IF ok THEN "run" ELSE "done"

\* processEvents after publishEvent has returned: the error is logged and
\* the loop continues with the select
PcAfterGet(ok) == "run"

\* result.Get(ctx) returns: the server's answer for the bundle the message
\* was sent in, or the context's error
PubGet ==
    /\ Alive
    /\ pubPc = "get"
    /\ LET sent == \A i \in 1..Len(bundle) : bundle[i].id # waitFor
       IN  /\ sent \/ ctxDone
           /\ \E ok \in BOOLEAN :
                 /\ ok => sent
                 /\ delivered' = IF ok THEN delivered \cup {waitFor}
                                 ELSE delivered
                 /\ failed' = IF ok THEN failed ELSE failed \cup {waitFor}
                 /\ pubPc' = PcAfterGet(ok)
    /\ waitFor' = NilEvent
    /\ UNCHANGED <<attempted, bundle, age, flushes, nils, attemptLog, lastMsg,
                   mainVars, gcVars,
                   srcVars, whVars, kubeVars, chanVars, ctxDone>>

\* a registered source sends on the channel Start gave it: an event, or nil
SourceSend ==
    /\ Alive
    /\ enqueued < MaxEvents
    /\ ~chanClosed
    /\ Len(eventChan) < BufferSize
    /\ \E isNil \in BOOLEAN :
          eventChan' = Enqueue(eventChan,
                              IF isNil THEN NilEvent ELSE enqueued + 1)
    /\ enqueued' = enqueued + 1
    /\ UNCHANGED <<chanClosed, sendOnClosed, gcSent, mainVars, pubVars, gcVars,
                   srcVars, whVars, kubeVars, ctxDone>>

(***************************************************************************)
(* Push adapters.                                                          *)
(***************************************************************************)
\* a select whose send succeeds whatever the channel holds
SelectOutcome_NoRoomTest(q, c) == IF c THEN "panic" ELSE "sent"

\* outcome of the non-blocking select of a push adapter on the channel
\* state (queue contents q, closed flag c)
SelectOutcome(q, c) ==
    IF c THEN "panic"
    ELSE IF Len(q) < BufferSize THEN "sent"
    ELSE "default"

\* HTTP status the webhook handlers write for a select outcome
StatusOf(outcome) ==
    IF outcome = "sent" THEN 202
    ELSE IF outcome = "default" THEN 503
    ELSE 0

\* a request reaches HandleWebhook / CreateHandler: the checks that precede
\* the event (method, header, body, signature, JSON) pass or reject it
WhRequest ==
    /\ Alive
    /\ srvState = "listening"
    /\ whPc = "idle"
    /\ requests < MaxRequests
    /\ requests' = requests + 1
    /\ \E valid \in BOOLEAN :
          IF valid
             THEN /\ whPc' = "select"
                  /\ whLast' = [attempts |-> 0, room |-> FALSE,
                                closed |-> FALSE, enq |-> FALSE, status |-> 0]
             ELSE /\ whPc' = "idle"
                  /\ whLast' = [attempts |-> 0, room |-> FALSE,
                                closed |-> FALSE, enq |-> FALSE, status |-> 400]
    /\ UNCHANGED <<srvState, whReq, mainVars, pubVars, gcVars, srcVars,
                   kubeVars, chanVars, ctxDone>>

\* the webhook handlers and their configuration: the receiver's handler
\* (always built with debug on) and the source's handler, each with or
\* without a secret
Handlers ==
    [kind : {"receiver", "source"}, secretSet : BOOLEAN, debug : {TRUE}]

\* X-Hub-Signature-256 of a request: header absent, a value without the
\* sha256= prefix, a prefixed value that is not the MAC of the body, or the
\* MAC of the body under the secret
Signatures == {"none", "malformed", "wrong", "valid"}

\* the requests a handler is called with
Requests ==
    [handler : Handlers, method : {"POST", "GET"}, hasType : BOOLEAN,
     readable : BOOLEAN, signature : Signatures, json : BOOLEAN]

\* no request has been followed yet
NoRequest ==
    [handler |-> [kind |-> "", secretSet |-> FALSE, debug |-> TRUE],
     method |-> "", hasType |-> FALSE, readable |-> FALSE,
     signature |-> "none", json |-> FALSE]

\* the MAC comparison of validateSignature for a secret that is set
MacAccepts(signature) ==
    IF signature \in {"none", "malformed"} THEN FALSE
    ELSE signature = "valid"

\* the signature step of a handler lets the request through
SignatureStep(h, signature) ==
    IF h.kind = "receiver"
       THEN IF ~(~h.debug \/ signature # "none") THEN TRUE
            ELSE IF h.debug /\ signature = "none" THEN TRUE
            ELSE IF ~h.secretSet THEN TRUE
            ELSE MacAccepts(signature)
       ELSE IF ~h.secretSet \/ signature = "none" THEN TRUE
            ELSE MacAccepts(signature)

\* the status a handler rejects the request with at the first check that
\* fails, 0 when the request gets to the event
Rejection(req) ==
    IF req.method # "POST" THEN 405
    ELSE IF ~req.hasType THEN 400
    ELSE IF ~req.readable THEN 400
    ELSE IF ~SignatureStep(req.handler, req.signature) THEN 401
    ELSE IF ~req.json THEN 400
    ELSE 0

\* a request reaches HandleWebhook / CreateHandler and goes through the
\* checks that precede the event
WhHandle ==
    /\ Alive
    /\ srvState = "listening"
    /\ whPc = "idle"
    /\ requests < MaxRequests
    /\ requests' = requests + 1
    /\ \E req \in Requests :
          /\ whReq' = req
          /\ whPc' = IF Rejection(req) = 0 THEN "select" ELSE "idle"
          /\ whLast' = [attempts |-> 0, room |-> FALSE, closed |-> FALSE,
                        enq |-> FALSE, status |-> Rejection(req)]
    /\ UNCHANGED <<srvState, mainVars, pubVars, gcVars, srcVars, kubeVars,
                   chanVars, ctxDone>>

\* the select of the handler: case eventChan <- event / default
WhSelect ==
    /\ Alive
    /\ whPc = "select"
    /\ LET outcome == SelectOutcome(eventChan, chanClosed)
       IN  /\ eventChan' = IF outcome = "sent"
                              THEN Enqueue(eventChan, "w") ELSE eventChan
           /\ enqueued' = IF outcome = "sent" THEN enqueued + 1 ELSE enqueued
           /\ sendOnClosed' = (sendOnClosed \/ outcome = "panic")
           /\ whLast' = [attempts |-> whLast.attempts + 1,
                         room |-> Len(eventChan) < BufferSize,
                         closed |-> chanClosed,
                         enq |-> outcome = "sent",
                         status |-> StatusOf(outcome)]
    /\ whPc' = "idle"
    /\ UNCHANGED <<srvState, requests, whReq, chanClosed, gcSent, mainVars, pubVars,
                   gcVars, srcVars, kubeVars, ctxDone>>

\* the informer calls AddFunc / UpdateFunc: an event younger than one hour
\* goes to handleEvent, which ends in the select on k.eventChan
KubeHandleEvent ==
    /\ Alive
    /\ informer = "running"
    /\ notifications < MaxNotifications
    /\ notifications' = notifications + 1
    /\ \E recent \in BOOLEAN :
          LET outcome == IF recent THEN SelectOutcome(eventChan, chanClosed)
                         ELSE "filtered"
          IN  /\ eventChan' = IF outcome = "sent"
                                 THEN Enqueue(eventChan, "k") ELSE eventChan
              /\ enqueued' = IF outcome = "sent" THEN enqueued + 1
                             ELSE enqueued
              /\ sendOnClosed' = (sendOnClosed \/ outcome = "panic")
              /\ kubeLast' = [attempts |-> IF recent THEN 1 ELSE 0,
                              room |-> Len(eventChan) < BufferSize,
                              closed |-> chanClosed,
                              enq |-> outcome = "sent"]
              /\ informer' = IF outcome = "panic" THEN "panic" ELSE informer
    /\ UNCHANGED <<chanClosed, gcSent, mainVars, pubVars, gcVars, srcVars,
                   whVars, ctxDone>>

\* informer.Run(ctx.Done()) returns some time after the context is cancelled
KubeInformerStop ==
    /\ Alive
    /\ informer = "running"
    /\ ctxDone
    /\ informer' = "stopped"
    /\ UNCHANGED <<notifications, kubeLast, mainVars, pubVars, gcVars,
                   srcVars, whVars, chanVars, ctxDone>>

(***************************************************************************)
(* main and the PubSubProcessor.Start / Stop lifecycle.                    *)
(***************************************************************************)
\* Start, loop over p.sources: GitHubCollector.Start spawns the goroutine,
\* which begins with the initial collection
StartGithub ==
    /\ Alive
    /\ mainPc = "start"
    /\ srcIdx <= Len(sources)
    /\ sources[srcIdx] = "github"
    /\ gcPc' = "list"
    /\ srcIdx' = srcIdx + 1
    /\ started' = Append(started, sources[srcIdx])
    /\ UNCHANGED <<closes, stops, sources, enqAtCancel, mainPc, topicStopped, clientClosed, cycleVars,
                   stopChanClosed, ticks, tracker, newestObserved, storeVars,
                   pubVars, srcVars, whVars, kubeVars, chanVars, ctxDone>>

\* KubeSource.Start registers the handlers and runs the informer; the
\* cache syncs while the context is not cancelled
StartKube ==
    /\ Alive
    /\ mainPc = "start"
    /\ srcIdx <= Len(sources)
    /\ sources[srcIdx] = "kube"
    /\ ~ctxDone
    /\ informer' = "running"
    /\ srcIdx' = srcIdx + 1
    /\ started' = Append(started, sources[srcIdx])
    /\ UNCHANGED <<closes, stops, sources, enqAtCancel, mainPc, topicStopped, clientClosed, notifications,
                   kubeLast, pubVars, gcVars, srcVars, whVars, chanVars,
                   ctxDone>>

\* a Start loop that goes on with the next source after a failed Start
StartKubeFails_Continues ==
    /\ Alive
    /\ mainPc = "start"
    /\ srcIdx <= Len(sources)
    /\ sources[srcIdx] = "kube"
    /\ ctxDone
    /\ informer' = "stopped"
    /\ srcIdx' = srcIdx + 1
    /\ UNCHANGED <<sources, enqAtCancel, mainPc, topicStopped, clientClosed,
                   lifeVars, notifications, kubeLast, pubVars, gcVars,
                   srcVars, whVars, chanVars, ctxDone>>

\* KubeSource.Start with the context cancelled: the informer returns,
\* WaitForCacheSync reports false and Start returns "failed to sync cache",
\* which PubSubProcessor.Start returns to its caller at once
StartKubeFails ==
    /\ Alive
    /\ mainPc = "start"
    /\ srcIdx <= Len(sources)
    /\ sources[srcIdx] = "kube"
    /\ ctxDone
    /\ informer' = "stopped"
    /\ mainPc' = "failed"
    /\ UNCHANGED <<sources, enqAtCancel, srcIdx, topicStopped, clientClosed,
                   lifeVars, notifications, kubeLast, pubVars, gcVars,
                   srcVars, whVars, chanVars, ctxDone>>

\* WebhookReceiver.Start / WebhookSource.Start: the server listens
StartWebhook ==
    /\ Alive
    /\ mainPc = "start"
    /\ srcIdx <= Len(sources)
    /\ sources[srcIdx] = "webhook"
    /\ srvState' = "listening"
    /\ srcIdx' = srcIdx + 1
    /\ started' = Append(started, sources[srcIdx])
    /\ UNCHANGED <<closes, stops, sources, enqAtCancel, mainPc, topicStopped, clientClosed, whPc,
                   requests, whLast, whReq, pubVars, gcVars, srcVars, kubeVars,
                   chanVars, ctxDone>>

\* Start, after the loop: go p.processEvents(ctx)
StartPublisher ==
    /\ Alive
    /\ mainPc = "start"
    /\ srcIdx > Len(sources)
    /\ pubPc' = "run"
    /\ mainPc' = "running"
    /\ UNCHANGED <<lifeVars, sources, enqAtCancel, srcIdx, topicStopped, clientClosed, attempted,
                   batchVars, gcVars, srcVars, whVars, kubeVars, chanVars, ctxDone>>

\* main on the error of Start: log.Fatalf ends the process
MainFatal ==
    /\ Alive
    /\ mainPc = "failed"
    /\ mainPc' = "exit"
    /\ UNCHANGED <<sources, enqAtCancel, srcIdx, topicStopped, clientClosed,
                   lifeVars, pubVars, gcVars, srcVars, whVars, kubeVars,
                   chanVars, ctxDone>>

\* the context given to Start is cancelled by its owner while Start runs
CancelInStart ==
    /\ Alive
    /\ mainPc = "start"
    /\ ~ctxDone
    /\ ctxDone' = TRUE
    /\ enqAtCancel' = enqueued
    /\ UNCHANGED <<sources, mainPc, srcIdx, topicStopped, clientClosed,
                   lifeVars, pubVars, gcVars, srcVars, whVars, kubeVars,
                   chanVars>>

\* the shutdown signal arrives and main calls cancel()
MainCancel ==
    /\ Alive
    /\ mainPc = "running"
    /\ ctxDone' = TRUE
    /\ enqAtCancel' = IF ctxDone THEN enqAtCancel ELSE enqueued
    /\ mainPc' = "cancelled"
    /\ UNCHANGED <<lifeVars, sources, srcIdx, topicStopped, clientClosed, pubVars,
                   gcVars, srcVars, whVars, kubeVars, chanVars>>

\* main calls Stop: after cancel(), or straight after the signal where
\* cancel is deferred to the return of main
MainStop ==
    /\ Alive
    /\ mainPc \in {"running", "cancelled"}
    /\ mainPc' = "stop"
    /\ srcIdx' = 1
    /\ stops' = stops + 1
    /\ UNCHANGED <<started, closes, sources, enqAtCancel, topicStopped, clientClosed, pubVars, gcVars,
                   srcVars, whVars, kubeVars, chanVars, ctxDone>>

\* GitHubCollector.Stop: close(gc.stopChan)
StopGithubClose ==
    /\ Alive
    /\ mainPc = "stop"
    /\ srcIdx <= Len(sources)
    /\ sources[srcIdx] = "github"
    /\ stopChanClosed' = TRUE
    /\ closes' = [closes EXCEPT !.stopChan = @ + 1]
    /\ mainPc' = IF stopChanClosed THEN "panic" ELSE "stopWait"
    /\ UNCHANGED <<started, stops, sources, enqAtCancel, srcIdx, topicStopped, clientClosed, gcPc, ticks,
                   cycleVars, tracker, newestObserved, storeVars, pubVars,
                   srcVars, whVars, kubeVars, chanVars, ctxDone>>

\* GitHubCollector.Stop: gc.wg.Wait() returns once the goroutine is done
StopGithubWait ==
    /\ Alive
    /\ mainPc = "stopWait"
    /\ gcPc = "done"
    /\ mainPc' = "stop"
    /\ srcIdx' = srcIdx + 1
    /\ UNCHANGED <<lifeVars, sources, enqAtCancel, topicStopped, clientClosed, pubVars, gcVars,
                   srcVars, whVars, kubeVars, chanVars, ctxDone>>

\* KubeSource.Stop: return nil
StopKube ==
    /\ Alive
    /\ mainPc = "stop"
    /\ srcIdx <= Len(sources)
    /\ sources[srcIdx] = "kube"
    /\ srcIdx' = srcIdx + 1
    /\ UNCHANGED <<lifeVars, sources, enqAtCancel, mainPc, topicStopped, clientClosed, pubVars,
                   gcVars, srcVars, whVars, kubeVars, chanVars, ctxDone>>

\* WebhookReceiver.Stop: server.Shutdown stops accepting requests
StopWebhookShutdown ==
    /\ Alive
    /\ mainPc = "stop"
    /\ srcIdx <= Len(sources)
    /\ sources[srcIdx] = "webhook"
    /\ srvState' = "shutdown"
    /\ mainPc' = "shutdown"
    /\ UNCHANGED <<lifeVars, sources, enqAtCancel, srcIdx, topicStopped, clientClosed, whPc,
                   requests, whLast, whReq, pubVars, gcVars, srcVars, kubeVars,
                   chanVars, ctxDone>>

\* server.Shutdown returns: no handler is active, or its 5 second context
\* expired with a handler still running
StopWebhookReturn ==
    /\ Alive
    /\ mainPc = "shutdown"
    /\ mainPc' = "stop"
    /\ srcIdx' = srcIdx + 1
    /\ UNCHANGED <<lifeVars, sources, enqAtCancel, topicStopped, clientClosed, pubVars, gcVars,
                   srcVars, whVars, kubeVars, chanVars, ctxDone>>

\* Stop, after the loop over p.sources: close(p.eventChan)
StopClose ==
    /\ Alive
    /\ mainPc = "stop"
    /\ srcIdx > Len(sources)
    /\ chanClosed' = TRUE
    /\ closes' = [closes EXCEPT !.eventChan = @ + 1]
    /\ mainPc' = IF chanClosed THEN "panic" ELSE "wait"
    /\ UNCHANGED <<started, stops, sources, enqAtCancel, srcIdx, topicStopped, clientClosed, eventChan,
                   enqueued, sendOnClosed, gcSent, pubVars, gcVars, srcVars, whVars,
                   kubeVars, ctxDone>>

\* a Stop that releases the bus without waiting for processEvents
StopRelease_NoWait ==
    /\ Alive
    /\ mainPc = "wait"
    /\ topicStopped' = TRUE
    /\ clientClosed' = TRUE
    /\ mainPc' = "exit"
    /\ UNCHANGED <<lifeVars, sources, enqAtCancel, srcIdx, pubVars, gcVars, srcVars,
                   whVars, kubeVars, chanVars, ctxDone>>

\* Stop: p.wg.Wait() returns once processEvents is done, then topic.Stop()
\* and client.Close(); main returns
StopRelease ==
    /\ Alive
    /\ mainPc = "wait"
    /\ pubPc = "done"
    /\ topicStopped' = TRUE
    /\ clientClosed' = TRUE
    /\ mainPc' = "exit"
    /\ UNCHANGED <<lifeVars, sources, enqAtCancel, srcIdx, pubVars, gcVars, srcVars, whVars,
                   kubeVars, chanVars, ctxDone>>

\* a caller of the Processor calls Stop once more after Stop has returned
StopAgain ==
    /\ mainPc = "exit"
    /\ clientClosed
    /\ gcPc # "panic" /\ informer # "panic" /\ pubPc # "panic"
    /\ stops < MaxStops
    /\ stops' = stops + 1
    /\ mainPc' = "stop"
    /\ srcIdx' = 1
    /\ UNCHANGED <<sources, enqAtCancel, topicStopped, clientClosed, started,
                   closes, pubVars, gcVars, srcVars, whVars, kubeVars,
                   chanVars, ctxDone>>

(***************************************************************************)
(* Specifications.                                                         *)
(***************************************************************************)
InitCommon ==
    /\ ctxDone = FALSE
    /\ eventChan = <<>>
    /\ chanClosed = FALSE
    /\ attempted = 0
    /\ enqueued = 0
    /\ gcSent = {}
    /\ enqAtCancel = 0
    /\ topicStopped = FALSE
    /\ clientClosed = FALSE
    /\ stopChanClosed = FALSE
    /\ ticks = 0
    /\ ri = 1
    /\ lastEventID = Empty
    /\ latestEventID = Empty
    /\ allEvents = <<>>
    /\ page = 1
    /\ si = 1
    /\ foundLastSeen = FALSE
    /\ emittedIdx = {}
    /\ doneKey = ""
    /\ lastRet = "none"
    /\ srcErr = FALSE
    /\ tracker = [r \in RepoNames |-> NoRecord]
    /\ newestObserved = [r \in RepoNames |-> Empty]
    /\ whPc = "idle"
    /\ requests = 0
    /\ whReq = NoRequest
    /\ whLast = [attempts |-> 0, room |-> FALSE, closed |-> FALSE,
                 enq |-> FALSE, status |-> 0]
    /\ notifications = 0
    /\ kubeLast = [attempts |-> 0, room |-> FALSE, closed |-> FALSE,
                   enq |-> FALSE]
    /\ sendOnClosed = FALSE
    /\ bundle = <<>>
    /\ age = 0
    /\ waitFor = NilEvent
    /\ flushes = <<>>
    /\ delivered = {}
    /\ failed = {}
    /\ nils = 0
    /\ attemptLog = <<>>
    /\ lastMsg = NoMessage
    /\ visited = {}
    /\ fetchErr = {}
    /\ th = [t \in Threads |-> Idle]
    /\ etRepos = [r \in RepoNames |-> 0]
    /\ heap = <<>>
    /\ ncalls = 0
    /\ sets = [r \in RepoNames |-> {}]
    /\ replaced = {}
    /\ ref = [r \in RepoNames |-> Empty]
    /\ got = {}
    /\ lastGet = [ret |-> Empty, want |-> Empty]
    /\ overlapped = FALSE
    /\ started = <<>>
    /\ closes = [stopChan |-> 0, eventChan |-> 0]
    /\ stops = 0

\* after construction: the processor with its three kinds of source
\* registered, before Start
Init ==
    /\ InitCommon
    /\ sources = <<"github", "kube", "webhook">>
    /\ listing = [r \in RepoNames |->
                     IF Skipped(r) THEN <<[id |-> 1, kind |-> "ok"]>>
                     ELSE <<[id |-> 3, kind |-> "ok"], [id |-> 2, kind |-> "ok"]>>]
    /\ nextId = 4
    /\ mainPc = "start"
    /\ srcIdx = 1
    /\ pubPc = "off"
    /\ gcPc = "off"
    /\ srvState = "off"
    /\ informer = "off"

Next ==
    \/ StartGithub \/ StartKube \/ StartWebhook \/ StartPublisher
    \/ MainCancel \/ MainStop
    \/ StopGithubClose \/ StopGithubWait \/ StopKube
    \/ StopWebhookShutdown \/ StopWebhookReturn
    \/ StopClose \/ StopRelease
    \/ PubReceive \/ PubChanClosed \/ PubCtxDone
    \/ WhRequest \/ WhSelect
    \/ KubeHandleEvent \/ KubeInformerStop
    \/ GcListRepos \/ GcRepo \/ GcFetch \/ GcScan \/ GcSend
    \/ GcSendCancelled \/ GcTick \/ GcExit

Spec == Init /\ [][Next]_vars

\* a processor whose only source is the collector, after Start has returned
InitPoll ==
    /\ InitCommon
    /\ sources = <<"github">>
    /\ listing = [r \in RepoNames |->
                     IF Skipped(r) THEN <<[id |-> 1, kind |-> "ok"]>>
                     ELSE <<>>]
    /\ nextId = 2
    /\ mainPc = "running"
    /\ srcIdx = 2
    /\ pubPc = "run"
    /\ gcPc = "list"
    /\ srvState = "off"
    /\ informer = "off"

NextPoll ==
    \/ MainCancel
    \/ PubReceive \/ PubCtxDone
    \/ Arrive
    \/ GcListRepos \/ GcRepo \/ GcFetch \/ GcScan \/ GcSend
    \/ GcSendCancelled \/ GcTick \/ GcExit

SpecPoll == InitPoll /\ [][NextPoll]_vars

\* the collector goroutine is scheduled whenever it can take a step; nothing
\* is assumed of the consumer or of the environment
FairPoll ==
    /\ SpecPoll
    /\ WF_vars(GcListRepos) /\ WF_vars(GcRepo) /\ WF_vars(GcFetch)
    /\ WF_vars(GcScan) /\ WF_vars(GcSendCancelled)

\* a processor whose only source is the collector, after Start has
\* returned, with a listing longer than the queue
InitCancel ==
    /\ InitCommon
    /\ sources = <<"github">>
    /\ listing = [r \in RepoNames |->
                     IF Skipped(r) THEN <<[id |-> 1, kind |-> "ok"]>>
                     ELSE [i \in 1..(BufferSize + 1) |->
                             [id |-> BufferSize + 3 - i, kind |-> "ok"]]]
    /\ nextId = BufferSize + 3
    /\ mainPc = "running"
    /\ srcIdx = 2
    /\ pubPc = "run"
    /\ gcPc = "list"
    /\ srvState = "off"
    /\ informer = "off"

NextCancel ==
    \/ MainCancel
    \/ PubReceive \/ PubCtxDone
    \/ GcListRepos \/ GcRepo \/ GcFetch \/ GcScan \/ GcSend
    \/ GcSendCancelled \/ GcTick \/ GcExit

SpecCancel == InitCancel /\ [][NextCancel]_vars

\* consecutive cycles of the collector over a listing that gains and loses
\* items, with the publisher draining the queue and no cancellation
NextRoll ==
    \/ Arrive \/ Remove
    \/ PubReceive
    \/ GcListRepos \/ GcRepo \/ GcFetch \/ GcScan \/ GcSend \/ GcTick

SpecRoll == InitCancel /\ [][NextRoll]_vars

\* a listening webhook server, with the publisher draining the queue and
\* another source filling it
InitHook ==
    /\ InitCommon
    /\ sources = <<"webhook", "source">>
    /\ listing = [r \in RepoNames |-> <<>>]
    /\ nextId = 1
    /\ mainPc = "running"
    /\ srcIdx = 3
    /\ pubPc = "run"
    /\ gcPc = "off"
    /\ srvState = "listening"
    /\ informer = "off"

NextHook == WhHandle \/ WhSelect \/ SourceSend \/ PubReceive

SpecHook == InitHook /\ [][NextHook]_vars

\* the collector goroutine and the publisher goroutine are scheduled
\* whenever they can take a step of their own, and a select takes a case
\* that is ready again and again; the publisher is not assumed to drain the
\* queue
FairCancel ==
    /\ SpecCancel
    /\ WF_vars(GcListRepos) /\ WF_vars(GcRepo) /\ WF_vars(GcFetch)
    /\ WF_vars(GcScan) /\ WF_vars(GcSendCancelled)
    /\ SF_vars(GcExit) /\ WF_vars(PubCtxDone)

\* the publisher on its own, after Start has returned, with a source that
\* is neither the collector nor a push adapter of this repository
InitPub ==
    /\ InitCommon
    /\ sources = <<"source">>
    /\ listing = [r \in RepoNames |-> <<>>]
    /\ nextId = 1
    /\ mainPc = "running"
    /\ srcIdx = 2
    /\ pubPc = "run"
    /\ gcPc = "off"
    /\ srvState = "off"
    /\ informer = "off"

NextPub == SourceSend \/ PubPublish \/ PubDelay \/ PubGet

SpecPub == InitPub /\ [][NextPub]_vars

\* the processor with the collector, the Kubernetes source or both
\* registered, before Start; its caller may have the context cancelled
\* while Start runs and may call Stop again after Stop has returned
InitLife ==
    /\ InitCommon
    /\ sources \in {<<"github", "kube">>, <<"kube", "github">>, <<"kube">>}
    /\ listing = [r \in RepoNames |->
                     IF Skipped(r) THEN <<[id |-> 1, kind |-> "ok"]>>
                     ELSE <<[id |-> 4, kind |-> "ok"], [id |-> 3, kind |-> "ok"],
                            [id |-> 2, kind |-> "ok"]>>]
    /\ nextId = 5
    /\ mainPc = "start"
    /\ srcIdx = 1
    /\ pubPc = "off"
    /\ gcPc = "off"
    /\ srvState = "off"
    /\ informer = "off"

NextLife ==
    \/ StartGithub \/ StartKube \/ StartKubeFails \/ StartPublisher
    \/ MainFatal \/ CancelInStart \/ MainCancel \/ MainStop
    \/ StopGithubClose \/ StopGithubWait \/ StopKube
    \/ StopClose \/ StopRelease \/ StopAgain
    \/ PubReceive \/ PubChanClosed \/ PubCtxDone
    \/ KubeHandleEvent \/ KubeInformerStop
    \/ GcListRepos \/ GcRepo \/ GcFetch \/ GcScan \/ GcSend
    \/ GcSendCancelled \/ GcTick \/ GcExit

SpecLife == InitLife /\ [][NextLife]_vars

\* the first cycle of the collector, with the bundling publisher draining
\* the queue
NextOrder ==
    \/ Arrive
    \/ GcListRepos \/ GcRepo \/ GcFetch \/ GcScan \/ GcSend
    \/ PubPublish \/ PubDelay \/ PubGet

SpecOrder == InitPoll /\ [][NextOrder]_vars

\* an EventTracker on its own, as NewEventTracker returns it, with the
\* goroutines of Threads calling it
InitStore ==
    /\ InitCommon
    /\ sources = <<>>
    /\ listing = [r \in RepoNames |-> <<>>]
    /\ nextId = 1
    /\ mainPc = "running"
    /\ srcIdx = 1
    /\ pubPc = "off"
    /\ gcPc = "off"
    /\ srvState = "off"
    /\ informer = "off"

NextStore ==
    \/ GetLookup \/ GetCreate \/ GetReturn
    \/ UpdateLookup \/ UpdateCreate \/ UpdateWrite

SpecStore == InitStore /\ [][NextStore]_vars

(***************************************************************************)
(* Shutdown.                                                               *)
(***************************************************************************)
\* C1: once cancel() has fired and Stop has released the bus (topic.Stop,
\* client.Close), a publish has been attempted for every event that was
\* buffered in eventChan when cancel() fired: the events accepted up to the
\* cancellation have all been handed to publishEvent.
C1_BufferedEventsAttemptedBeforeRelease ==
    (ctxDone /\ topicStopped) => attempted >= enqAtCancel

\* C2: no producer executes a send on eventChan after close(eventChan).
C2_NoEnqueueAfterClose == sendOnClosed = FALSE

\* every source's Stop has returned
AllSourcesStopped ==
    /\ mainPc \in {"wait", "exit"}
    /\ srcIdx > Len(sources)
    /\ stopChanClosed /\ gcPc = "done"
    /\ srvState = "shutdown"

InScan == gcPc \in {"scan", "send"} \/ doneKey # ""

\* identifiers of the items of a sequence, in order
IdsOf(events) == [i \in 1..Len(events) |-> events[i].id]

\* C4: in a cycle whose stored cursor names an item of the listing, every
\* emitted item is listed before that item (the cursor item and the items
\* after it are not emitted).  For cursor B and listing [D,C,B,A] (B = 3,
\* D = 5), D and C inside the window and convertible, the completed scan has
\* emitted exactly D and C and the cursor is D.
C4_CursorItemAndOlderNotEmitted ==
    /\ (InScan /\ lastEventID # Empty) =>
          \A i \in emittedIdx :
             \A j \in 1..i : allEvents[j].id # lastEventID
    /\ ( /\ doneKey # ""
         /\ lastEventID = 3
         /\ IdsOf(allEvents) = <<5, 4, 3, 2>>
         /\ allEvents[1].kind = "ok" /\ allEvents[2].kind = "ok" ) =>
          emittedIdx = {1, 2} /\ tracker[doneKey] = 5

\* the scan of [D,C,B,A] with cursor B has ended
C4_Witness ==
    /\ doneKey # ""
    /\ lastEventID = 3
    /\ IdsOf(allEvents) = <<5, 4, 3, 2>>
    /\ emittedIdx = {1, 2}

\* C5: within one cycle of one key no identifier is enqueued twice.
C5_EachIdEnqueuedAtMostOnce ==
    InScan =>
       \A i, j \in emittedIdx : i # j => allEvents[i].id # allEvents[j].id

\* C6: in a cycle with an empty stored cursor no item older than the cutoff
\* is emitted, and no item listed after the first such item is emitted.
C6_NothingEmittedFromFirstOldItem ==
    (InScan /\ lastEventID = Empty) =>
       \A i \in emittedIdx :
          \A j \in 1..i : allEvents[j].kind # "old"

\* a first-run scan ended at an old item that is followed by an item inside
\* the window, after emitting the items before it
C6_Witness ==
    /\ doneKey # ""
    /\ lastEventID = Empty
    /\ emittedIdx = {1}
    /\ Len(allEvents) >= 3
    /\ allEvents[2].kind = "old"
    /\ allEvents[3].kind = "ok"

\* C7: when the cycle of a key with a non-empty listing completes, the
\* stored cursor is the identifier of the first item of the first page
\* fetched in the cycle.  With an empty cursor and listing [C,B,A] (A = 2,
\* C = 4), all inside the window and convertible, exactly three events are
\* emitted and the cursor is C.
C7_CursorIsFirstItemOfFirstPage ==
    /\ doneKey # "" => tracker[doneKey] = allEvents[1].id
    /\ ( /\ doneKey # ""
         /\ lastEventID = Empty
         /\ IdsOf(allEvents) = <<4, 3, 2>>
         /\ \A i \in 1..3 : allEvents[i].kind = "ok" ) =>
          emittedIdx = {1, 2, 3} /\ tracker[doneKey] = 4

\* a cycle over more than one page ended at the cutoff with nothing emitted
\* and moved the cursor
C7_Witness ==
    /\ doneKey # ""
    /\ emittedIdx = {}
    /\ Len(allEvents) > PerPage
    /\ allEvents[1].kind = "old"
    /\ lastEventID # allEvents[1].id
    /\ tracker[doneKey] = allEvents[1].id

\* the stored cursor of a key, the zero value when it has no record
CursorOf(repo) == GetLastEventID(tracker, repo)

C9_PushAdapterAdmission ==
    /\ whLast.attempts <= 1
    /\ kubeLast.attempts <= 1
    /\ whLast.attempts = 1 =>
          IF whLast.room THEN whLast.enq /\ whLast.status = 202
          ELSE ~whLast.enq /\ whLast.status = 503
    /\ kubeLast.attempts = 1 => (kubeLast.enq <=> kubeLast.room)

\* C10: a collector enqueue that is pending when the context is cancelled
\* is abandoned: collectEvents returns, whether or not the consumer frees a
\* slot.
C10_CancelAbortsPendingEnqueue ==
    (gcPc = "send" /\ ctxDone) ~> (gcPc \in {"idle", "done"})

\* the collector is pending on a full queue after cancellation and the
\* consumer has already returned
C10_Witness ==
    /\ gcPc = "send"
    /\ ctxDone
    /\ Len(eventChan) = BufferSize
    /\ pubPc = "done"

\* C11: with a full queue the collector is not held at its enqueue select:
\* whenever it stands there, one of the select's cases can proceed at once,
\* as in the push adapters, whose select falls through to default.
C11_CollectorNeverWaitsForRoom ==
    (Alive /\ gcPc = "send") => ENABLED (GcSend \/ GcSendCancelled)

FlushSizes == [i \in 1..Len(flushes) |-> Len(flushes[i].ids)]

\* C13: with the count threshold at 2, once 5 events (all below the byte
\* threshold) have been taken from the queue and published, they went out
\* in 3 bundles of 2, 2 and 1 events, in that order.
C13_FiveEventsInThreeFlushes ==
    ( /\ BatchSize = 2
      /\ attempted = 5
      /\ Cardinality(delivered) = 5
      /\ \A i \in 1..Len(flushes) : flushes[i].bytes < BatchBytes )
    => FlushSizes = <<2, 2, 1>>

\* C14: a failed publish is local to its event: every event taken from the
\* queue is handed to publishEvent exactly once, a failed event is not put
\* back into the queue, and when publishEvent returns, with or without an
\* error, processEvents is back at its select.
C14_FailureIsLocal ==
    /\ [](/\ attempted + Len(eventChan) = enqueued
          /\ \A i \in 1..Len(eventChan) : eventChan[i] \notin failed)
    /\ [][pubPc = "get" => pubPc' \in {"get", "run"}]_vars

\* an event failed and a later one was then published
C14_Witness ==
    \E f \in failed : \E d \in delivered : d > f

\* C15: a nil event taken from the queue is a no-op: the publisher does not
\* panic, nothing is published for it, and it is not counted as a failure.
C15_NilEventIsNoOp ==
    nils > 0 =>
       /\ pubPc # "panic"
       /\ \A i \in 1..Len(bundle) : bundle[i].id # NilEvent
       /\ NilEvent \notin failed

(***************************************************************************)
(* The cursor store.                                                       *)
(***************************************************************************)
\* C16: under any interleaving of calls on the same key, first accesses
\* included, once every call has returned GetLastEventID(key) returns the
\* token of one of the UpdateLastEventID(key, .) calls made: never the
\* empty token, and never a token whose update had returned before a later
\* update of the key was invoked.
C16_LatestSetWins ==
    Quiescent =>
       \A k \in RepoNames :
          sets[k] # {} =>
             /\ CurrentToken(k) \in sets[k]
             /\ CurrentToken(k) \notin replaced

\* C17: when the calls do not overlap, GetLastEventID(key) returns the token
\* of the most recent UpdateLastEventID(key, token), the empty token if
\* there was none; a get creates the record of an unseen key; an update of
\* one key leaves the token of every other key as it was; and no key ever
\* loses its record.
C17_SequentialStore ==
    /\ [](~overlapped =>
             /\ lastGet.ret = lastGet.want
             /\ \A k \in got : etRepos[k] # 0
             /\ Quiescent => \A k \in RepoNames : CurrentToken(k) = ref[k])
    /\ [][/\ \A k \in RepoNames : etRepos[k] # 0 => etRepos'[k] # 0
          /\ ~overlapped' =>
                \A k \in RepoNames :
                   ref'[k] = ref[k] => CurrentToken(k)' = CurrentToken(k)]_vars

\* without overlap: a get returned the token of an earlier update, and a
\* get of a key never updated created that key's record
C17_Witness ==
    /\ ~overlapped
    /\ Quiescent
    /\ lastGet.ret # Empty
    /\ \E k \in got : ref[k] = Empty /\ etRepos[k] # 0

(***************************************************************************)
(* Keys and source errors of a collection cycle.                           *)
(***************************************************************************)
\* the repo loop has gone through the whole listing
RepoLoopOver == gcPc = "repo" /\ ri > Len(Repos)

\* C18: when the repo loop of a cycle is over, the per-key algorithm, which
\* starts with the read of the key's cursor, has been run for every
\* repository the listing returned, whatever its name.
C18_EveryKeyProcessed == RepoLoopOver => visited = RepoNames

\* C19: a source error met while a key is processed ends the processing of
\* that key only.  Listing error: when the repo loop is over, every key
\* that follows a key whose page fetch failed has been processed.
\* Rate-limiter wait failure: a failed limiter.Wait (the collector stands
\* before a wait of the repo loop or of the pagination loop and
\* collectEvents returns an error) ends the cycle only if no key follows
\* the current one.
C19_ErrorAbortsOnlyItsKey ==
    /\ [](RepoLoopOver =>
             \A i \in 1..Len(Repos) :
                Repos[i] \in fetchErr =>
                   \A j \in (i + 1)..Len(Repos) : Repos[j] \in visited)
    /\ [][(gcPc \in {"repo", "fetch"} /\ gcPc' = "idle" /\ lastRet' = "err")
             => ri >= Len(Repos)]_vars

\* C20: once a listing page fetch has failed for a key, at the first page
\* or at a later one, the rest of the cycle enqueues no event of that key
\* and leaves the key's stored cursor as it was.
C20_FetchErrorAbortsKey ==
    [][\A k \in RepoNames :
          (k \in fetchErr /\ k \in fetchErr') =>
             /\ tracker'[k] = tracker[k]
             /\ (gcPc = "send" /\ Repos[ri] = k) => enqueued' = enqueued]_vars

\* C21: the goroutine started by GitHubCollector.Start begins with a
\* collection cycle; between cycles it takes the next tick whenever it is
\* waiting in its select loop (whatever the previous cycle returned), and it
\* leaves the loop only from that select, on the stop signal or on
\* cancellation: a cycle that returned an error does not end the loop.
C21_LoopSurvivesCycleError ==
    /\ []((Alive /\ gcPc = "idle" /\ ticks < MaxTicks) => ENABLED GcTick)
    /\ [][(gcPc = "off" /\ gcPc' # "off") => gcPc' = "list"]_vars
    /\ [][(gcPc # "done" /\ gcPc' = "done") =>
             (gcPc = "idle" /\ (stopChanClosed \/ ctxDone))]_vars

\* a second cycle is running after a first one that returned an error, the
\* collector being neither stopped nor cancelled
C21_Witness ==
    /\ lastRet = "err"
    /\ ticks >= 1
    /\ gcPc = "repo"
    /\ ~ctxDone
    /\ ~stopChanClosed

\* the scan reaches item i of allEvents: neither it nor an item listed
\* before it is the item the cursor names or is older than the cutoff
Reached(i) ==
    \A j \in 1..i :
       allEvents[j].id # lastEventID /\ allEvents[j].kind # "old"

\* C22: an item whose conversion fails is skipped and nothing else is:
\* when the scan of a key has ended, every convertible item that is newer
\* than the cursor and inside the cutoff window has been emitted, items that
\* fail to convert have not, and no turn of the scan loop ends the cycle.
C22_ConvertErrorSkipsOneItem ==
    /\ [](doneKey # "" =>
             \A i \in 1..Len(allEvents) :
                Reached(i) => (i \in emittedIdx <=> allEvents[i].kind = "ok"))
    /\ [][gcPc = "scan" => gcPc' \in {"scan", "send", "repo"}]_vars

\* a completed scan emitted an item listed after one that failed to convert
C22_Witness ==
    /\ doneKey # ""
    /\ \E i, j \in 1..Len(allEvents) :
          /\ i < j
          /\ allEvents[i].kind = "bad"
          /\ Reached(j)
          /\ j \in emittedIdx

RECURSIVE EmittedUpTo(_)
EmittedUpTo(n) ==
    IF n = 0 THEN <<>>
    ELSE IF n \in emittedIdx
            THEN Append(EmittedUpTo(n - 1), allEvents[n].id)
            ELSE EmittedUpTo(n - 1)

\* C24: the events emitted for one key in one cycle are attempted in scan
\* order, newest first: during the scan of the key the attempted ids followed
\* by the ids still queued are the ids of the emitted items in scan order,
\* and at any time no id is attempted or queued before a newer one.
C24_AttemptsNewestFirst ==
    /\ InScan => attemptLog \o eventChan = EmittedUpTo(Len(allEvents))
    /\ LET order == attemptLog \o eventChan
       IN  \A i, j \in 1..Len(order) : i < j => order[i] >= order[j]

\* three events of one key's cycle have been attempted while the collector
\* was still scanning the key
C24_Witness ==
    /\ InScan
    /\ Len(attemptLog) >= 3
    /\ attemptLog[1] > attemptLog[2]
    /\ attemptLog[2] > attemptLog[3]

\* C26: the attribute map of the message built for an event is derived from
\* the event's type, source, id and extensions: it carries the three fields,
\* and an event with extensions gets a map that differs from the map of the
\* same event without them.
C26_ExtensionsReachAttributes ==
    lastMsg # NoMessage =>
       LET event == lastMsg.event
           attrs == lastMsg.attributes
       IN  /\ attrs.type = event.type
           /\ attrs.source = event.source
           /\ attrs.id = event.id
           /\ event.extensions # {} =>
                 attrs # Attributes([event EXCEPT !.extensions = {}])

(***************************************************************************)
(* Start and repeated Stop.                                                *)
(***************************************************************************)
\* C25: no sequence of lifecycle calls executes close(p.eventChan) twice or
\* close(gc.stopChan) twice.
C25_ClosedOnce == closes.eventChan <= 1 /\ closes.stopChan <= 1

\* PubSubProcessor.Start has returned an error
StartFailed == mainPc = "failed" \/ (mainPc = "exit" /\ ~clientClosed)

\* C27: the publisher runs only when the Start of every registered source
\* has returned nil, the sources having been started in registration order;
\* when the Start of a source has failed, Start has returned its error, the
\* sources registered after the failing one have not been started and the
\* publisher is not started.
C27_PublisherAfterAllSources ==
    /\ Len(started) <= Len(sources)
    /\ started = SubSeq(sources, 1, Len(started))
    /\ pubPc # "off" => started = sources
    /\ StartFailed =>
          /\ pubPc = "off"
          /\ Len(started) = srcIdx - 1
          /\ \A i \in (srcIdx + 1)..Len(sources) :
                /\ sources[i] = "github" => gcPc = "off"
                /\ sources[i] = "kube" => informer = "off"

\* the Start of the first source has failed and the process has ended: the
\* collector registered after it and the publisher were never started
C27_Witness ==
    /\ mainPc = "exit"
    /\ ~clientClosed
    /\ sources = <<"kube", "github">>
    /\ started = <<>>
    /\ gcPc = "off"
    /\ pubPc = "off"

\* C28: once the context is cancelled the collector goroutine and the
\* publisher goroutine both terminate, whatever the queue holds and without
\* any further send or receive on it being needed.
C28_CancelTerminatesAll == ctxDone ~> (gcPc = "done" /\ pubPc = "done")

\* both goroutines have terminated after a cancellation, with events still
\* buffered in the queue
C28_Witness ==
    /\ ctxDone
    /\ gcPc = "done"
    /\ pubPc = "done"
    /\ Len(eventChan) = BufferSize

\* C29: GitHubCollector.Stop always returns: once close(gc.stopChan) has
\* executed, the collector goroutine can take a step of its own in every
\* state until it is done (it never depends on the consumer or on a
\* cancellation to get to its exit), so that wg.Wait completes.
C29_StopNeverWaitsForConsumer ==
    (Alive /\ stopChanClosed /\ gcPc \notin {"off", "done"}) =>
        ENABLED (GcListRepos \/ GcRepo \/ GcFetch \/ GcScan \/ GcSend
                   \/ GcSendCancelled \/ GcTick \/ GcExit)

\* C30: the number of events buffered in eventChan never exceeds BufferSize,
\* with several producers sending concurrently.
C30_QueueWithinBufferSize == Len(eventChan) <= BufferSize

\* the queue is full while the collector is in its enqueue select and the
\* Kubernetes source has just found no room for an event
C30_Witness ==
    /\ Len(eventChan) = BufferSize
    /\ gcPc = "send"
    /\ kubeLast.attempts = 1
    /\ ~kubeLast.room
    /\ ~kubeLast.enq

(***************************************************************************)
(* Cancellation in the scan, consecutive cycles, the webhook checks.       *)
(***************************************************************************)
\* C31: when the enqueue select of the scan of a key ends the cycle, it is
\* on cancellation, the cycle returns an error and the stored cursor of the
\* key is not written: it is still the cursor read when the key was entered.
C31_AbortedScanKeepsCursor ==
    [][(gcPc = "send" /\ gcPc' = "idle") =>
          /\ ctxDone
          /\ lastRet' = "err"
          /\ tracker' = tracker
          /\ CursorOf(Repos[ri]) = lastEventID]_vars

\* the first cycle has returned an error after enqueuing items of the key,
\* and the cursor of the key is still empty
C31_Witness ==
    /\ gcPc = "idle"
    /\ lastRet = "err"
    /\ ticks = 0
    /\ ctxDone
    /\ enqueued > 0
    /\ CursorOf("elixir") = Empty

\* C32: as long as no listing call has failed and the context is not
\* cancelled, no identifier of a key is enqueued in two different cycles,
\* also when the item the stored cursor names has left the listing.
C32_NoIdInTwoCycles ==
    (~srcErr /\ ~ctxDone) =>
        \A p, q \in gcSent :
           (p[1] = q[1] /\ p[2] = q[2]) => p[3] = q[3]

\* the request carries the MAC of its body under the handler's secret, or
\* the handler has no secret to validate against
Authentic(req) == req.handler.secretSet => req.signature = "valid"

\* C33: a webhook request that has been answered has enqueued an event only
\* if it passed every check (POST, event-type header, readable body, valid
\* signature, parseable JSON), has enqueued at most one event, and was
\* answered 202 exactly when it enqueued one.
C33_OnlyCheckedRequestsEnqueue ==
    (whPc = "idle" /\ whReq # NoRequest) =>
        /\ whLast.enq =>
              /\ whReq.method = "POST"
              /\ whReq.hasType
              /\ whReq.readable
              /\ Authentic(whReq)
              /\ whReq.json
        /\ whLast.attempts <= 1
        /\ whLast.status = 202 <=> whLast.enq

====
